---- MODULE Spec2Model ----
(***************************************************************************)
(* Mission orchestration engine of the LLM bridge (AgentOrchestrator,      *)
(* AgentState, state repository, startup recovery).                         *)
(*                                                                          *)
(* One mission id is followed.  The mission is either created by           *)
(* execute_mission, or it is already held by the repository that is handed *)
(* to resume_mission (a suspended mission stored under that id).  A step   *)
(* of the model runs from one await of the code (a Bridge call, a          *)
(* repository save) to the next one.                                       *)
(***************************************************************************)
EXTENDS Integers, Sequences, FiniteSets, TLC

(***************************************************************************)
(* Bounds                                                                  *)
(***************************************************************************)
MaxExec == 6          \* agent executions followed within one call
MaxRestarts == 1      \* process restarts followed
MaxCalls == 3         \* execute_mission / resume_mission calls followed
MaxRemovals == 1      \* deletions and expiries of the stored mission followed
MaxRequests == 6      \* CircuitBreaker.execute calls followed
MaxFlights == 2       \* protected calls in flight at the same time
MaxRouted == 5        \* calls on the conversation followed
MaxResolvers == 2     \* tasks that call ServiceContainer.resolve
MaxResolves == 6      \* resolve calls followed

(***************************************************************************)
(* Program constants                                                       *)
(***************************************************************************)
max_tool_calls == 5
ProgressCap == 95
DefaultQualityThreshold == 80     \* percent, crew_config.get('quality_threshold', 0.8)
SchemaQualityThreshold == 85      \* percent, CrewConfig.quality_threshold
max_failures == 3                 \* CircuitBreaker.__init__ defaults
reset_timeout_base_seconds == 60
max_reset_timeout_seconds == 300
TickSeconds == 12                 \* seconds of one step of the clock

VARIABLES
    crew,       \* crew configuration the orchestrator was constructed with
    pc,         \* await point the running call is suspended at ("idle": none)
    op,         \* the call being run, or the last one run
    st,         \* the AgentState object of the running call
    loc,        \* local variables of the running call
    repo,       \* the record stored under the mission id (Redis string)
    activeIdx,  \* mission id is a member of the active-missions set
    mem,        \* the in-memory repository given the same saves and deletes:
                \* status at the last save, membership in _active_ids
    result,     \* how the last call ended
    saved,      \* a save was issued by the current / last call
    lastTool,   \* the last tool call handled by _execute_tool_call
    walkLog,    \* nodes whose agent was started by _execution_phase in this call
    nSynth,     \* supervisor calls made by _synthesis_phase in this call
    doneLog,    \* node names in the order in which they first completed
    lastReply,  \* the last reply a Bridge call of this call returned
    nBridge,    \* Bridge calls made for an agent since the last save
    nCalls,     \* calls begun
    nRemovals,  \* deletions and expiries so far
    other,      \* a second resume_mission call for the same mission id that
                \* runs concurrently: its await point, AgentState and locals
    nRestarts,  \* restarts so far
    cb,         \* one CircuitBreaker object, the time left until its
                \* _next_attempt_at, and the protected calls in flight
    cbLog,      \* what the last breaker step did
    conv,       \* one ConversationStateMachine of the Router
    convLog,    \* what the last conversation step did
    di,         \* one ServiceContainer and the resolve calls in progress
    diLog       \* instances the factories have built, results of resolve

\* the orchestrator, its repository and the calls on them
mission == <<crew, pc, op, st, loc, repo, activeIdx, result, saved, lastTool,
             walkLog, nSynth, doneLog, lastReply, nBridge, nCalls, nRestarts, mem,
             nRemovals, other>>

\* the components below the Bridge
services == <<cb, cbLog, conv, convLog, di, diLog>>

vars == <<mission, services>>

(***************************************************************************)
(* Names                                                                   *)
(***************************************************************************)
Agents == {"researcher", "writer", "qa"}
Owners == Agents \cup {"supervisor"}
END == "END"
None == "none"

Range(s) == {s[i] : i \in 1..Len(s)}
NoDup(s) == \A i, j \in 1..Len(s) : i # j => s[i] # s[j]
IsPrefix(s, t) == Len(s) <= Len(t) /\ \A i \in 1..Len(s) : s[i] = t[i]
Min(a, b) == IF a <= b THEN a ELSE b

(***************************************************************************)
(* agents section of the registry: which agents declare tools, and the     *)
(* output schema each one declares                                         *)
(***************************************************************************)
agents_config ==
    [a \in Agents |->
        CASE a = "researcher" -> [tools |-> TRUE,  output_schema |-> "ResearchReport"]
          [] a = "writer"     -> [tools |-> TRUE,  output_schema |-> "FinalReport"]
          [] OTHER            -> [tools |-> FALSE, output_schema |-> "QualityAssessment"]]

(***************************************************************************)
(* Graph node configuration: a dict with an optional transitions_to and an *)
(* optional conditional_transitions key.  has_ct says the key is present,  *)
(* ct_null that its value is None, ct lists the declared targets.          *)
(***************************************************************************)
Uncond(t) == [transitions_to |-> t, has_ct |-> FALSE, ct_null |-> FALSE, ct |-> <<>>]
Cond(ts)  == [transitions_to |-> None, has_ct |-> TRUE, ct_null |-> FALSE, ct |-> ts]
Missing   == [transitions_to |-> None, has_ct |-> FALSE, ct_null |-> FALSE, ct |-> <<>>]

\* NodeConfig.check_transitions: exactly one of the two keys is set
NodeConfigValid(n) ==
    LET hasTo == n.transitions_to # None
        hasCt == n.has_ct /\ ~n.ct_null /\ n.ct # <<>>
    IN  ~(hasTo /\ hasCt) /\ (hasTo \/ hasCt)

\* NodeConfig(...).model_dump(): both keys are always present in the dict
NodeConfigDump(n) ==
    [transitions_to |-> n.transitions_to,
     has_ct |-> TRUE,
     ct_null |-> ~(n.has_ct /\ ~n.ct_null),
     ct |-> n.ct]

\* crews as written in the registry (raw dictionaries); quality_threshold is
\* in percent, -1 says that the key is absent
RawCrews ==
    { [name |-> "solo", entry_point |-> "researcher", max_iterations |-> 2,
       quality_threshold |-> -1,
       nodes |-> [a \in Agents |-> IF a = "researcher" THEN Uncond(END) ELSE Missing]],
      [name |-> "chain", entry_point |-> "researcher", max_iterations |-> 2,
       quality_threshold |-> -1,
       nodes |-> [a \in Agents |->
                    CASE a = "researcher" -> Uncond("writer")
                      [] a = "writer" -> Uncond(END)
                      [] OTHER -> Missing]],
      [name |-> "review", entry_point |-> "writer", max_iterations |-> 2,
       quality_threshold |-> -1,
       nodes |-> [a \in Agents |->
                    CASE a = "writer" -> Uncond("qa")
                      [] a = "qa" -> Cond(<<"writer", END>>)
                      [] OTHER -> Missing]],
      [name |-> "arbitrated", entry_point |-> "researcher", max_iterations |-> 2,
       quality_threshold |-> -1,
       nodes |-> [a \in Agents |->
                    CASE a = "researcher" -> Cond(<<"writer", END>>)
                      [] a = "writer" -> Cond(<<"researcher", END>>)
                      [] OTHER -> Missing]],
      [name |-> "cycle", entry_point |-> "researcher", max_iterations |-> 2,
       quality_threshold |-> -1,
       nodes |-> [a \in Agents |->
                    CASE a = "researcher" -> Uncond("writer")
                      [] a = "writer" -> Uncond("researcher")
                      [] OTHER -> Missing]] }

\* nodes that the graph section declares
Declared(c) == {a \in Agents : c.nodes[a] # Missing}

\* RegistrySchema validation followed by model_dump(), as done at startup
CrewDump(c) ==
    [name |-> c.name, entry_point |-> c.entry_point, max_iterations |-> c.max_iterations,
     quality_threshold |-> IF c.quality_threshold < 0 THEN SchemaQualityThreshold
                           ELSE c.quality_threshold,
     nodes |-> [a \in Agents |-> IF c.nodes[a] = Missing THEN Missing
                                 ELSE NodeConfigDump(c.nodes[a])]]

CrewValid(c) ==
    /\ c.entry_point \in Declared(c)
    /\ \A a \in Declared(c) : NodeConfigValid(c.nodes[a])

Crews == RawCrews \cup {CrewDump(c) : c \in {r \in RawCrews : CrewValid(r)}}

(***************************************************************************)
(* AgentState                                                              *)
(***************************************************************************)
NoReq == [agent_name |-> None, question |-> None]
NoResults == [output |-> None, raw |-> FALSE, human_response |-> None, final_synthesis |-> FALSE]

NoMission ==
    [exists |-> FALSE, status |-> None, task_plan |-> -1, current_node |-> None,
     completed_nodes |-> <<>>, results |-> [o \in Owners |-> NoResults],
     active_human_request |-> NoReq, error_messages |-> 0, progress_percentage |-> 0]

\* StateManager.create_mission_state
create_mission_state ==
    [NoMission EXCEPT !.exists = TRUE, !.status = "PENDING"]

start_execution(s) == [s EXCEPT !.status = "RUNNING"]

complete_execution(s) == [s EXCEPT !.status = "COMPLETED", !.progress_percentage = 100]

\* mark_error that also discards the plan
mark_error_drops_plan(s) ==
    [s EXCEPT !.status = "ERROR", !.error_messages = @ + 1, !.task_plan = -1]

mark_error(s) == [s EXCEPT !.status = "ERROR", !.error_messages = @ + 1]

\* set_current_node without the membership test of line 76
set_current_node_always_append(s, n) ==
    LET done == IF s.current_node # None
                THEN Append(s.completed_nodes, s.current_node)
                ELSE s.completed_nodes
        prog == IF s.task_plan > 0
                THEN Min(ProgressCap, (Len(done) * 100) \div s.task_plan)
                ELSE s.progress_percentage
    IN  [s EXCEPT !.completed_nodes = done, !.current_node = n, !.progress_percentage = prog]

\* AgentState.set_current_node
set_current_node(s, n) ==
    LET done == IF s.current_node # None /\ s.current_node \notin Range(s.completed_nodes)
                THEN Append(s.completed_nodes, s.current_node)
                ELSE s.completed_nodes
        prog == IF s.task_plan > 0
                THEN Min(ProgressCap, (Len(done) * 100) \div s.task_plan)
                ELSE s.progress_percentage
    IN  [s EXCEPT !.completed_nodes = done, !.current_node = n, !.progress_percentage = prog]

store_result(s, agent, value, kind) ==
    [s EXCEPT !.results[agent] =
        CASE kind = "output" -> [@ EXCEPT !.output = value]
          [] kind = "raw" -> [@ EXCEPT !.raw = TRUE]
          [] kind = "human_response" -> [@ EXCEPT !.human_response = value]
          [] OTHER -> [@ EXCEPT !.final_synthesis = TRUE]]

get_result(s, agent) == s.results[agent].output

(***************************************************************************)
(* The Redis repository stores AgentState.model_dump_json() and rebuilds   *)
(* the mission with AgentState.model_validate_json().  results is declared *)
(* Dict[str, Any]: a typed object held there (QualityAssessment,           *)
(* ResearchReport, FinalReport) is written as a JSON object, and a JSON    *)
(* object is read back as a plain dict.                                    *)
(***************************************************************************)
TypedOutputs == {"qa_publish", "qa_revise", "qa_research_more", "qa_fail", "report"}

\* JSON rendering of a value held in results
to_json(v) == IF v \in TypedOutputs THEN "dict_" \o v ELSE v

\* AgentState.model_dump_json
model_dump_json(s) ==
    [s EXCEPT !.results = [o \in Owners |-> [s.results[o] EXCEPT !.output = to_json(@)]]]

\* AgentState.model_validate_json: the typed fields are rebuilt from their
\* JSON, the values of results are taken as parsed
model_validate_json(j) ==
    [exists |-> j.exists, status |-> j.status, task_plan |-> j.task_plan,
     current_node |-> j.current_node, completed_nodes |-> j.completed_nodes,
     results |-> j.results, active_human_request |-> j.active_human_request,
     error_messages |-> j.error_messages,
     progress_percentage |-> j.progress_percentage]

(***************************************************************************)
(* Tool registry: the parameters each registered function accepts          *)
(***************************************************************************)
TOOL_REGISTRY ==
    [ask_human  |-> [params |-> {"question", "context", "options", "urgency"},
                     required |-> {"question"}],
     web_search |-> [params |-> {"query", "max_results"},
                     required |-> {"query"}]]

RegisteredTools == DOMAIN TOOL_REGISTRY

\* tool calls an agent's reply can carry: tool name and the keys of "args"
ToolCalls ==
    { [tool_name |-> "ask_human", args |-> {"question"}],
      [tool_name |-> "ask_human", args |-> {"question", "agent_name"}],
      [tool_name |-> "web_search", args |-> {"query"}],
      [tool_name |-> "summarize", args |-> {"text"}] }

NoTool == [tool_name |-> None, args |-> {}, agent |-> None, outcome |-> None]

\* Python call binding of tool_function(**tool_args): every keyword must be a
\* parameter of the function and every required parameter must be given
Binds(keys, sig) == keys \subseteq sig.params /\ sig.required \subseteq keys

\* ask_human never returns: it always raises HumanInterventionRequired
ask_human == "suspend"

\* the registered function, once the call is bound
tool_function(tool) == IF tool = "ask_human" THEN ask_human ELSE "result"

\* _execute_tool_call without the registry test of line 595: a name that is
\* not registered is treated like a tool that ran
execute_tool_call_runs_unknown(call, agent_name) ==
    IF call.tool_name \notin RegisteredTools THEN "result"
    ELSE LET tool_args == IF call.tool_name = "ask_human" /\ "agent_name" \notin call.args
                          THEN call.args \cup {"agent_name"}
                          ELSE call.args
         IN  IF Binds(tool_args, TOOL_REGISTRY[call.tool_name])
             THEN tool_function(call.tool_name)
             ELSE "error"

\* _execute_tool_call: "result" (a tool result dict), "error" (a structured
\* error dict) or "suspend" (HumanInterventionRequired is raised)
execute_tool_call(call, agent_name) ==
    IF call.tool_name \notin RegisteredTools THEN "error"
    ELSE LET tool_args == IF call.tool_name = "ask_human" /\ "agent_name" \notin call.args
                          THEN call.args \cup {"agent_name"}
                          ELSE call.args
         IN  IF Binds(tool_args, TOOL_REGISTRY[call.tool_name])
             THEN tool_function(call.tool_name)
             ELSE "error"

(***************************************************************************)
(* Replies of the models behind the Bridge                                 *)
(***************************************************************************)
BridgeFailure == "bridge_failure"

\* final answers of an agent: prose, or a JSON object carrying a recommendation
Replies(agent) ==
    IF agents_config[agent].output_schema = "QualityAssessment"
    THEN {"prose", "json_publish", "json_revise", "json_research_more", "json_fail",
          "json_other"}
    ELSE {"prose"}

\* replies that have, or nearly have, the form of a tool call:
\*   tool_call            {"tool_name": "t", "args": {...}}
\*   padded_tool_call     the same between blank lines
\*   json_no_tool_name    {"args": {"query": "x"}}
\*   json_no_args         {"tool_name": "web_search"}
\*   brace_not_json       {tool_name: web_search, args: none
ToolShaped ==
    {"tool_call", "padded_tool_call", "json_no_tool_name", "json_no_args", "brace_not_json"}

\* what the tests of _is_tool_call see in a reply: how the text starts, whether
\* it contains the literal tool_name, whether json.loads accepts it, and the
\* keys of the parsed object
Shape(reply) ==
    CASE reply = "tool_call" ->
            [starts |-> "brace", literal |-> TRUE, json |-> TRUE,
             keys |-> {"tool_name", "args"}]
      [] reply = "padded_tool_call" ->
            [starts |-> "blank_brace", literal |-> TRUE, json |-> TRUE,
             keys |-> {"tool_name", "args"}]
      [] reply = "json_no_tool_name" ->
            [starts |-> "brace", literal |-> FALSE, json |-> TRUE, keys |-> {"args"}]
      [] reply = "json_no_args" ->
            [starts |-> "brace", literal |-> TRUE, json |-> TRUE, keys |-> {"tool_name"}]
      [] reply = "brace_not_json" ->
            [starts |-> "brace", literal |-> TRUE, json |-> FALSE, keys |-> {}]
      [] reply = "prose" ->
            [starts |-> "letter", literal |-> FALSE, json |-> FALSE, keys |-> {}]
      [] OTHER ->
            [starts |-> "brace", literal |-> FALSE, json |-> TRUE,
             keys |-> {"recommendation", "reasoning"}]

\* str.strip() on the start of the text
strip(starts) == IF starts = "blank_brace" THEN "brace" ELSE starts

\* _is_tool_call without the test for the args key
is_tool_call_without_args(reply) ==
    LET f == Shape(reply)
    IN  IF strip(f.starts) = "brace" /\ f.literal
        THEN f.json /\ "tool_name" \in f.keys
        ELSE FALSE

\* _is_tool_call
is_tool_call(reply) ==
    LET f == Shape(reply)
    IN  IF strip(f.starts) = "brace" /\ f.literal
        THEN f.json /\ "tool_name" \in f.keys /\ "args" \in f.keys
        ELSE FALSE

Recommendation == {"publish", "revise", "research_more", "fail"}

RecommendationOf(reply) ==
    CASE reply = "json_publish" -> "publish"
      [] reply = "json_revise" -> "revise"
      [] reply = "json_research_more" -> "research_more"
      [] reply = "json_fail" -> "fail"
      [] OTHER -> "other"

\* _structure_agent_result: the value stored as the agent's output
structure_agent_result(reply, cfg) ==
    IF cfg.output_schema = "QualityAssessment"
    THEN IF reply = "prose" THEN "qa_fail"
         ELSE IF RecommendationOf(reply) \in Recommendation
              THEN "qa_" \o RecommendationOf(reply)
              ELSE "text"
    ELSE IF reply = "prose" THEN "report" ELSE "text"

IsQualityAssessment(v) == v \in {"qa_publish", "qa_revise", "qa_research_more", "qa_fail"}

\* _handle_quality_assessment_routing with "revise" mapped to END
handle_quality_assessment_routing_revise_ends(v) ==
    CASE v = "qa_research_more" -> "researcher"
      [] OTHER -> END

\* _handle_quality_assessment_routing
handle_quality_assessment_routing(v) ==
    CASE v = "qa_publish" -> END
      [] v = "qa_revise" -> "writer"
      [] v = "qa_research_more" -> "researcher"
      [] v = "qa_fail" -> END
      [] OTHER -> END

\* replies of the supervisor to the planning prompt
PlanReplies == {"tasks_1", "tasks_2", "unparseable", "not_a_list"}

\* _parse_planning_response followed by TaskPlan(**task): the number of tasks
\* of the plan, or -1 when building the plan raises
parse_planning_response(r) ==
    CASE r = "tasks_1" -> 1
      [] r = "tasks_2" -> 2
      [] r = "unparseable" -> 1
      [] OTHER -> -1

\* replies of the supervisor to the routing prompt
RoutingReplies == {"writer", "Writer", "researcher", "END", "end", "writer or end", "unsure"}

\* str.lower() on the names that occur
Lower(w) ==
    CASE w = "Writer" -> "writer"
      [] w = "END" -> "end"
      [] OTHER -> w

\* the lower-cased names that response.strip().lower() contains
Contained(response) ==
    IF response = "writer or end" THEN {"writer", "end"} ELSE {Lower(response)}

\* _parse_routing_response without lower-casing the reply and the targets
parse_routing_response_case_sensitive(response, transitions) ==
    LET hits == {i \in 1..Len(transitions) : transitions[i] = response}
    IN  IF hits # {} THEN transitions[CHOOSE i \in hits : \A j \in hits : i <= j]
        ELSE IF transitions # <<>> THEN transitions[1] ELSE END

\* _parse_routing_response: the first declared target whose lower-cased name
\* the lower-cased reply contains, else the first declared target
parse_routing_response(response, transitions) ==
    LET hits == {i \in 1..Len(transitions) : Lower(transitions[i]) \in Contained(response)}
    IN  IF hits # {} THEN transitions[CHOOSE i \in hits : \A j \in hits : i <= j]
        ELSE IF transitions # <<>> THEN transitions[1] ELSE END

\* _handle_legacy_conditional_transitions from the supervisor's reply on: the
\* except clause falls back to the first declared target
handle_legacy_conditional_transitions(reply, transitions) ==
    IF reply = BridgeFailure
    THEN IF transitions # <<>> THEN transitions[1] ELSE END
    ELSE parse_routing_response(reply, transitions)

\* 'qa' in agent_name.lower()
IsQaName(a) == a = "qa"

\* confidence_score of the QualityAssessment built from the agent's answer, in
\* percent (0.1 for the default verdict built when the answer holds no JSON)
confidence_score(v) ==
    CASE v = "qa_publish" -> 95
      [] v = "qa_revise" -> 90
      [] v = "qa_research_more" -> 50
      [] OTHER -> 10

\* crew_config.get('quality_threshold', 0.8)
quality_threshold(c) ==
    IF c.quality_threshold < 0 THEN DefaultQualityThreshold ELSE c.quality_threshold

\* _check_quality_threshold: looks for overall_score on the entries of
\* results, which are dicts keyed by result kind
check_quality_threshold(s) ==
    LET qa_results == {a \in Agents : IsQaName(a) /\ s.results[a] # NoResults}
    IN  IF qa_results = {} THEN FALSE
        ELSE \E a \in qa_results :
                /\ "overall_score" \in DOMAIN s.results[a]
                /\ s.results[a].overall_score >= quality_threshold(crew)

(***************************************************************************)
(* Control flow between two awaits.  Each operator gives the AgentState,   *)
(* the locals and the await point reached; started says that               *)
(* _execution_phase has begun an agent execution.                          *)
(***************************************************************************)
NoLoc ==
    [node |-> None, iteration_count |-> 0, tool_call_count |-> 0, agent |-> None,
     ctx |-> None, req_agent |-> None, answer |-> None, current_prompt |-> {},
     continuation_prompt |-> [question |-> None, answer |-> None]]

At(s, l, p) == [st |-> s, loc |-> l, pc |-> p, started |-> FALSE]

\* except Exception of execute_mission / resume_mission: mark_error, then save
RaiseToCaller(s, l) == At(mark_error(s), l, "save_error")

\* A prompt of the Tool-Use Loop is followed by the tool results its text
\* holds: the set of the numbers of the tool invocations, counted within the
\* agent execution, whose (truncated) result was written into it.
initial_prompt == {}

\* _create_tool_enhanced_prompt: the prompt followed by the tool instructions
create_tool_enhanced_prompt(prompt) == prompt

\* _create_tool_result_prompt: original_prompt followed by the tool call and
\* the result of invocation k, cut at 1000 characters
create_tool_result_prompt(original_prompt, k) == original_prompt \cup {k}

\* line 532: the prompt of the last call, after max_tool_calls invocations
final_prompt == initial_prompt

\* _execute_agent_with_tools up to its first Bridge call
execute_agent_with_tools(s, l, agent, ctx) ==
    LET l1 == [l EXCEPT !.agent = agent, !.ctx = ctx, !.tool_call_count = 0,
                        !.current_prompt = create_tool_enhanced_prompt(initial_prompt)]
    IN  IF agents_config[agent].tools THEN At(s, l1, "tool_call")
        ELSE At(s, l1, "agent_call")

\* the while test of the Tool-Use Loop with <= in place of <
NextToolCycle_one_more(s, l) ==
    IF l.tool_call_count <= max_tool_calls THEN At(s, l, "tool_call")
    ELSE At(s, [l EXCEPT !.current_prompt = final_prompt], "final_call")

\* the Tool-Use Loop after a tool call was handled: the while test of line
\* 500, then the next Bridge call of the loop or the last call of line 535
NextToolCycle(s, l) ==
    IF l.tool_call_count < max_tool_calls THEN At(s, l, "tool_call")
    ELSE At(s, [l EXCEPT !.current_prompt = final_prompt], "final_call")

\* end of _execution_phase, then _synthesis_phase up to its Bridge call
ExitWalk(s, l) ==
    IF op = "resume" /\ s.status # "RUNNING" THEN At(s, l, "idle")
    ELSE At(s, l, "synth_call")

\* _synthesis_phase, lines 676-681: the agents whose output goes into the
\* synthesis prompt
all_results(s) == {a \in Range(s.completed_nodes) : get_result(s, a) # None}

\* head of the while loop of _execution_phase
LoopHead(s, l) ==
    IF l.node \in {None, END} THEN ExitWalk(s, l)
    ELSE LET s1 == set_current_node(s, l.node)
         IN  IF l.iteration_count >= crew.max_iterations THEN ExitWalk(s1, l)
             ELSE [execute_agent_with_tools(s1, l, l.node, "exec") EXCEPT !.started = TRUE]

\* _execution_phase from its first line
execution_phase(s, l) ==
    LoopHead(start_execution(s), [l EXCEPT !.node = crew.entry_point, !.iteration_count = 0])

\* lines 400-405: a conditional transition chose next
AfterRoute(s, l, next) ==
    LET it == IF next \in Range(s.completed_nodes) THEN l.iteration_count + 1
              ELSE l.iteration_count
    IN  LoopHead(s, [l EXCEPT !.node = next, !.iteration_count = it])

\* lines 386-411: after the agent of l.node has run and the state is saved
AfterNode(s, l) ==
    LET node_config == crew.nodes[l.node]
    IN  IF IsQaName(l.node) /\ check_quality_threshold(s) THEN ExitWalk(s, l)
        ELSE IF node_config.has_ct
        THEN IF IsQualityAssessment(get_result(s, l.node))
             THEN AfterRoute(s, l, handle_quality_assessment_routing(get_result(s, l.node)))
             ELSE IF node_config.ct_null THEN RaiseToCaller(s, l)
                  ELSE At(s, l, "route_call")
        ELSE LoopHead(s, [l EXCEPT !.node = node_config.transitions_to])

\* _execute_agent followed by the routing, without the save of line 371
StoreAgentResult_unsaved(s, l, reply) ==
    LET v == structure_agent_result(reply, agents_config[l.agent])
        s1 == store_result(store_result(s, l.agent, v, "output"), l.agent, reply, "raw")
    IN  IF l.ctx = "exec" THEN AfterNode(s1, l) ELSE At(s1, l, "save_cont")

\* the agent's final answer: structure it, store output and raw
StoreAgentResult(s, l, reply) ==
    LET v == structure_agent_result(reply, agents_config[l.agent])
        s1 == store_result(store_result(s, l.agent, v, "output"), l.agent, reply, "raw")
    IN  At(s1, l, IF l.ctx = "exec" THEN "save_node" ELSE "save_cont")

\* except HumanInterventionRequired of _execute_tool_call, and the handlers
\* the signal reaches next
Suspend(s, l) ==
    LET s1 == [s EXCEPT !.status = "AWAITING_HUMAN_INPUT",
                        !.active_human_request = [agent_name |-> l.agent, question |-> "q"]]
    IN  At(s1, l, IF l.ctx = "exec" THEN "save_susp_exec" ELSE "save_susp_resume")

\* resume_mission without line 141: the request is left on the mission
resume_apply_keeps_request(s, answer) ==
    [store_result(s, s.active_human_request.agent_name, answer, "human_response")
        EXCEPT !.status = "RUNNING"]

\* resume_mission lines 128-141 applied to the loaded state
resume_apply(s, answer) ==
    [store_result(s, s.active_human_request.agent_name, answer, "human_response")
        EXCEPT !.status = "RUNNING", !.active_human_request = NoReq]

\* the checks of resume_mission without the status test of line 118
Resumable_without_status(s) ==
    s.exists /\ s.active_human_request # NoReq

\* the checks of resume_mission lines 115-122
Resumable(s) ==
    s.exists /\ s.status = "AWAITING_HUMAN_INPUT" /\ s.active_human_request # NoReq

ActiveStatuses == {"PENDING", "PLANNING", "RUNNING", "AWAITING_HUMAN_INPUT"}

\* the statuses InMemoryAgentStateRepository.save enters in _active_ids
MemoryActiveStatuses == {"RUNNING", "AWAITING_HUMAN_INPUT", "PLANNING"}

\* InMemoryAgentStateRepository after save(s)
memory_save(s) == [status |-> s.status, active |-> s.status \in MemoryActiveStatuses]

\* InMemoryAgentStateRepository holding nothing under the mission id
MemoryEmpty == [status |-> None, active |-> FALSE]

(***************************************************************************)
(* Suspended missions a repository can hold for this crew: the walk went   *)
(* from the entry point along declared edges to a node whose agent asked   *)
(* for human input.                                                        *)
(***************************************************************************)
Edge(c, a, b) ==
    \/ c.nodes[a].transitions_to = b
    \/ b \in Range(c.nodes[a].ct)

WalkPrefixes(c) ==
    {p \in UNION {[1..n -> Agents] : n \in 1..3} :
        /\ p[1] = c.entry_point
        /\ NoDup(p)
        /\ \A i \in 1..(Len(p) - 1) : Edge(c, p[i], p[i + 1])}

SuspendedAt(p) ==
    LET a == p[Len(p)]
        done == SubSeq(p, 1, Len(p) - 1)
    IN  [exists |-> TRUE, status |-> "AWAITING_HUMAN_INPUT", task_plan |-> 2,
         current_node |-> a, completed_nodes |-> done,
         results |-> [o \in Owners |->
                        IF o \in Range(done)
                        THEN [NoResults EXCEPT
                                !.output = to_json(structure_agent_result("prose",
                                                                          agents_config[o])),
                                !.raw = TRUE]
                        ELSE NoResults],
         active_human_request |-> [agent_name |-> a, question |-> "q"],
         error_messages |-> 0,
         progress_percentage |-> Min(ProgressCap, (Len(done) * 100) \div 2)]

SuspendedInputs(c) ==
    {SuspendedAt(p) : p \in {q \in WalkPrefixes(c) : agents_config[q[Len(q)]].tools}}

Answers == {"yes"}

\* no second call is running
NoCall == [pc |-> "none", st |-> NoMission, loc |-> NoLoc]

(***************************************************************************)
(* Initial state: the orchestrator is constructed, no call is running      *)
(***************************************************************************)
(***************************************************************************)
(* CircuitBreaker.  next_attempt_at holds the clock steps left until       *)
(* _next_attempt_at (0: the time has come), -1 for None.  flights counts   *)
(* the protected calls in flight that were let through in CLOSED, tests    *)
(* those let through in HALF_OPEN.                                         *)
(***************************************************************************)
RECURSIVE Pow2(_)
Pow2(n) == IF n = 0 THEN 1 ELSE 2 * Pow2(n - 1)

\* random.uniform(0.8, 1.2), in tenths
Jitter == {8, 10, 12}

NewCircuitBreaker ==
    [state |-> "CLOSED", failure_count |-> 0, consecutive_failure_count |-> 0,
     next_attempt_at |-> -1, flights |-> 0, tests |-> 0]

NoBreakerLog == [outcome |-> None, requests |-> 0, failures |-> 0, openings |-> 0,
                 backoff |-> 0]

\* lines 166-170 of _open_circuit: the wait before jitter, in seconds
capped_backoff(c) ==
    Min(reset_timeout_base_seconds * Pow2(c.consecutive_failure_count - 1),
        max_reset_timeout_seconds)

\* _open_circuit
open_circuit(c, jitter_factor) ==
    [c EXCEPT !.state = "OPEN",
              !.next_attempt_at = (capped_backoff(c) * jitter_factor) \div (10 * TickSeconds)]

\* record_success
record_success(c) ==
    [c EXCEPT !.failure_count = 0, !.consecutive_failure_count = 0,
              !.state = "CLOSED", !.next_attempt_at = -1]

\* record_failure that trips only above the threshold
record_failure_above_threshold(c, jitter_factor) ==
    LET c1 == [c EXCEPT !.failure_count = @ + 1]
    IN  IF c1.state = "HALF_OPEN"
        THEN open_circuit([c1 EXCEPT !.consecutive_failure_count = @ + 1], jitter_factor)
        ELSE IF c1.failure_count > max_failures
        THEN open_circuit([c1 EXCEPT !.consecutive_failure_count = 1], jitter_factor)
        ELSE c1

\* record_failure
record_failure(c, jitter_factor) ==
    LET c1 == [c EXCEPT !.failure_count = @ + 1]
    IN  IF c1.state = "HALF_OPEN"
        THEN open_circuit([c1 EXCEPT !.consecutive_failure_count = @ + 1], jitter_factor)
        ELSE IF c1.failure_count >= max_failures
        THEN open_circuit([c1 EXCEPT !.consecutive_failure_count = 1], jitter_factor)
        ELSE c1

\* the protected call of one execute call returns or raises
Landed(c, kind) == [c EXCEPT ![kind] = @ - 1]

InFlight(c) == {kind \in {"flights", "tests"} : c[kind] > 0}

(***************************************************************************)
(* Router.active_conversations and ConversationStateMachine.  A            *)
(* conversation id is the sequence of the parts it is formatted from.      *)
(***************************************************************************)
Models == {"gpt4o_via_or", "claude35_sonnet_via_or", "gemini_via_or"}

\* str.startswith
startswith(id, prefix) == Len(id) > 0 /\ id[1] = prefix

\* AgentState.mission_id built without the prefix
mission_id_bare == <<"1a2b3c4d">>

\* AgentState.mission_id: f"mission_{uuid.uuid4().hex[:8]}"
mission_id == <<"mission_", "1a2b3c4d">>

\* the conversation ids of the Bridge calls of the orchestrator
OrchestratorConversationIds ==
    {mission_id \o <<suffix>> :
        suffix \in {"_planning", "_researcher", "_researcher_tool_0",
                    "_researcher_final", "_routing", "_synthesis"}}

\* conversation ids chosen by other callers of the Bridge
CallerConversationIds == {<<"conv_", "42">>, <<"missions", "_archive">>}

ConversationIds == OrchestratorConversationIds \cup CallerConversationIds

\* no ConversationStateMachine exists yet
NoConversation == [id |-> <<>>, current_state |-> None, participants_chain |-> <<>>]

NoConversationLog == [op |-> None, raised |-> FALSE, calls |-> 0]

\* ConversationStateMachine.__init__
ConversationStateMachine(conversation_id) ==
    [id |-> conversation_id, current_state |-> "IDLE", participants_chain |-> <<>>]

\* transition_to without rule 2 (ping-pong)
transition_to_rule1_only(m, target_llm_name, allow_repeats) ==
    LET chain == m.participants_chain
        is_mission_control == startswith(m.id, "mission_")
    IN  IF m.current_state \in {"CONVERSATION_ENDED", "ERROR"}
        THEN [machine |-> m, raised |-> TRUE]
        ELSE IF ~allow_repeats /\ ~is_mission_control
                /\ Len(chain) > 0 /\ target_llm_name = chain[Len(chain)]
        THEN [machine |-> [m EXCEPT !.current_state = "ERROR"], raised |-> TRUE]
        ELSE [machine |-> [m EXCEPT !.current_state = "AWAITING_RESPONSE",
                                    !.participants_chain = Append(@, target_llm_name)],
              raised |-> FALSE]

\* transition_to: the machine afterwards, and whether the call raised
transition_to(m, target_llm_name, allow_repeats) ==
    LET chain == m.participants_chain
        is_mission_control == startswith(m.id, "mission_")
    IN  IF m.current_state \in {"CONVERSATION_ENDED", "ERROR"}
        THEN [machine |-> m, raised |-> TRUE]
        ELSE IF ~allow_repeats /\ ~is_mission_control
                /\ Len(chain) > 0 /\ target_llm_name = chain[Len(chain)]
        THEN [machine |-> [m EXCEPT !.current_state = "ERROR"], raised |-> TRUE]
        ELSE IF ~allow_repeats /\ ~is_mission_control
                /\ Len(chain) > 1 /\ target_llm_name = chain[Len(chain) - 1]
        THEN [machine |-> [m EXCEPT !.current_state = "ERROR"], raised |-> TRUE]
        ELSE [machine |-> [m EXCEPT !.current_state = "AWAITING_RESPONSE",
                                    !.participants_chain = Append(@, target_llm_name)],
              raised |-> FALSE]

\* record_response without the test of the state
record_response_any_state(m, from_llm_name) ==
    LET chain == m.participants_chain
    IN  IF Len(chain) > 0 /\ chain[Len(chain)] = from_llm_name
        THEN [m EXCEPT !.current_state = "RESPONSE_RECEIVED"]
        ELSE m

\* record_response
record_response(m, from_llm_name) ==
    LET chain == m.participants_chain
    IN  IF m.current_state = "AWAITING_RESPONSE"
           /\ Len(chain) > 0 /\ chain[Len(chain)] = from_llm_name
        THEN [m EXCEPT !.current_state = "RESPONSE_RECEIVED"]
        ELSE m

\* end_conversation
end_conversation(m) == [m EXCEPT !.current_state = "CONVERSATION_ENDED"]

(***************************************************************************)
(* ServiceContainer with three singleton services registered with async    *)
(* factories: one without dependencies, one whose factory resolves the     *)
(* first, one whose factory resolves its own type.                         *)
(***************************************************************************)
ServiceTypes == {"IRedisProvider", "IStateRepository", "ISelfReferent"}

\* the service type the factory of t resolves from the container
Depends(t) ==
    CASE t = "IStateRepository" -> "IRedisProvider"
      [] t = "ISelfReferent" -> "ISelfReferent"
      [] OTHER -> None

Resolvers == 1..MaxResolvers

\* ServiceContainer.__init__ after the registrations; singletons gives the
\* number of the instance stored for a type, 0 for none; frames gives, for
\* each task, the types whose factory the task is suspended in
NewServiceContainer ==
    [resolving |-> {}, singletons |-> [t \in ServiceTypes |-> 0],
     frames |-> [r \in Resolvers |-> <<>>]]

NoContainerLog ==
    [built |-> [t \in ServiceTypes |-> 0], calls |-> 0,
     service_type |-> None, outcome |-> None, instance |-> 0]

\* resolve from its first line to the first await that suspends, or to its
\* return: the container afterwards, the factories the caller is suspended
\* in (outermost first), and how the call stands
RECURSIVE resolve(_, _)
resolve(c, service_type) ==
    IF service_type \in c.resolving
    THEN [container |-> c, frames |-> <<>>, outcome |-> "RuntimeError"]
    ELSE LET c1 == [c EXCEPT !.resolving = @ \cup {service_type}]
         IN  IF c1.singletons[service_type] # 0
             THEN [container |-> c, frames |-> <<>>, outcome |-> "instance"]
             ELSE IF Depends(service_type) = None
             THEN [container |-> c1, frames |-> <<service_type>>, outcome |-> "suspended"]
             ELSE LET inner == resolve(c1, Depends(service_type))
                      left == [inner.container EXCEPT !.resolving = @ \ {service_type}]
                  IN  CASE inner.outcome = "RuntimeError" ->
                              [container |-> left, frames |-> <<>>, outcome |-> "RuntimeError"]
                        [] inner.outcome = "instance" ->
                              [container |-> inner.container, frames |-> <<service_type>>,
                               outcome |-> "suspended"]
                        [] OTHER ->
                              [container |-> inner.container,
                               frames |-> <<service_type>> \o inner.frames,
                               outcome |-> "suspended"]

Init ==
    /\ cb = NewCircuitBreaker
    /\ cbLog = NoBreakerLog
    /\ conv = NoConversation
    /\ convLog = NoConversationLog
    /\ di = NewServiceContainer
    /\ diLog = NoContainerLog
    /\ crew \in Crews
    /\ repo \in {NoMission} \cup SuspendedInputs(crew)
    /\ activeIdx = repo.exists
    /\ mem = IF repo.exists THEN memory_save(repo) ELSE MemoryEmpty
    /\ nRemovals = 0
    /\ other = NoCall
    /\ pc = "idle"
    /\ op = None
    /\ st = NoMission
    /\ loc = NoLoc
    /\ result = None
    /\ saved = FALSE
    /\ lastTool = NoTool
    /\ walkLog = <<>>
    /\ nSynth = 0
    /\ doneLog = repo.completed_nodes
    /\ lastReply = None
    /\ nBridge = 0
    /\ nCalls = 0
    /\ nRestarts = 0

\* the machine moves to m; the walk log grows when an agent execution begins
Goto(m) ==
    /\ m.started => Len(walkLog) < MaxExec
    /\ st' = m.st
    /\ loc' = m.loc
    /\ pc' = m.pc
    /\ walkLog' = IF m.started THEN Append(walkLog, m.loc.node) ELSE walkLog
    /\ result' = IF m.pc = "idle" THEN "returned" ELSE result

\* the call ends with an exception at its caller
Raise ==
    /\ pc' = "idle"
    /\ result' = "raised"
    /\ UNCHANGED <<st, loc, walkLog>>

(***************************************************************************)
(* execute_mission, lines 49-59: create the mission and issue the first    *)
(* save                                                                    *)
(***************************************************************************)
ExecuteMission ==
    /\ pc = "idle"
    /\ UNCHANGED <<mem, nRemovals, other, services>>
    /\ ~repo.exists /\ ~activeIdx
    /\ nCalls < MaxCalls
    /\ nCalls' = nCalls + 1
    /\ op' = "execute"
    /\ st' = create_mission_state
    /\ loc' = NoLoc
    /\ pc' = "save_created"
    /\ result' = None
    /\ saved' = FALSE
    /\ lastTool' = NoTool
    /\ walkLog' = <<>>
    /\ nSynth' = 0
    /\ doneLog' = <<>>
    /\ lastReply' = None
    /\ nBridge' = 0
    /\ UNCHANGED <<crew, repo, activeIdx, nRestarts>>

(***************************************************************************)
(* resume_mission, lines 110-145: load, validate, record the answer        *)
(***************************************************************************)
ResumeMission ==
    /\ pc = "idle"
    /\ UNCHANGED <<mem, nRemovals, other, services>>
    /\ nCalls < MaxCalls
    /\ nCalls' = nCalls + 1
    /\ op' = "resume"
    /\ saved' = FALSE
    /\ lastTool' = NoTool
    /\ walkLog' = <<>>
    /\ nSynth' = 0
    /\ lastReply' = None
    /\ nBridge' = 0
    /\ \E answer \in Answers :
        IF Resumable(repo)
        THEN /\ st' = resume_apply(model_validate_json(repo), answer)
             /\ loc' = [NoLoc EXCEPT !.req_agent = repo.active_human_request.agent_name,
                                     !.answer = answer]
             /\ pc' = "save_resumed"
             /\ result' = None
        ELSE /\ st' = st
             /\ loc' = NoLoc
             /\ pc' = "idle"
             /\ result' = "rejected"
    /\ UNCHANGED <<crew, repo, activeIdx, doneLog, nRestarts>>

(***************************************************************************)
(* await state_repository.save(state), and the code that follows it up to  *)
(* the next await                                                          *)
(***************************************************************************)
SavePoints ==
    {"save_created", "save_planned", "save_node", "save_resumed", "save_cont",
     "save_synth", "save_final", "save_error", "save_susp_exec",
     "save_susp_mission", "save_susp_resume"}

\* what follows a save that succeeded
\* _create_continuation_prompt: the question and the answer its text embeds
create_continuation_prompt(s, human_response) ==
    [question |-> IF s.active_human_request # NoReq
                  THEN s.active_human_request.question
                  ELSE "Unbekannte Frage",
     answer |-> human_response]

AfterSave(p, s, l) ==
    CASE p = "save_created" -> At([s EXCEPT !.status = "PLANNING"], l, "plan_call")
      [] p = "save_planned" -> execution_phase(s, l)
      [] p = "save_node" -> AfterNode(s, l)
      [] p = "save_resumed" ->
            execute_agent_with_tools(
                s, [l EXCEPT !.continuation_prompt = create_continuation_prompt(s, l.answer)],
                l.req_agent, "cont")
      [] p = "save_cont" -> execution_phase(s, l)
      [] p = "save_synth" -> At(complete_execution(s), l, "save_final")
      [] p = "save_susp_exec" ->
            At(s, l, IF op = "execute" THEN "save_susp_mission" ELSE "save_susp_resume")
      [] OTHER -> At(s, l, "idle")

\* the save raised: is the exception handled by the except Exception clause
\* of the call (mark_error, save, re-raise)?
SaveFailureHandled(p) ==
    p \notin {"save_created", "save_error", "save_susp_mission"}

Save ==
    /\ UNCHANGED services
    /\ pc \in SavePoints
    /\ saved' = TRUE
    /\ \E ok \in BOOLEAN :
        IF ok
        THEN /\ repo' = model_dump_json(st)
             /\ activeIdx' = (st.status \in ActiveStatuses)
             /\ mem' = memory_save(st)
             /\ IF pc = "save_error" THEN Raise ELSE Goto(AfterSave(pc, st, loc))
        ELSE /\ UNCHANGED <<repo, activeIdx, mem>>
             /\ IF SaveFailureHandled(pc) THEN Goto(RaiseToCaller(st, loc)) ELSE Raise
    /\ nBridge' = 0
    /\ UNCHANGED <<crew, op, lastTool, nSynth, doneLog, lastReply, nCalls, nRestarts,
                   nRemovals, other>>

(***************************************************************************)
(* _planning_phase: the supervisor's reply to the planning prompt          *)
(***************************************************************************)
PlanReply ==
    /\ pc = "plan_call"
    /\ UNCHANGED <<mem, nRemovals, other, services>>
    /\ \E r \in PlanReplies \cup {BridgeFailure} :
        /\ lastReply' = r
        /\ IF r = BridgeFailure \/ parse_planning_response(r) < 0
           THEN Goto(RaiseToCaller(st, loc))
           ELSE Goto(At([st EXCEPT !.task_plan = parse_planning_response(r)], loc,
                        "save_planned"))
    /\ UNCHANGED <<crew, op, repo, activeIdx, saved, lastTool, nSynth, doneLog, nBridge,
                   nCalls, nRestarts>>

\* an agent finished: it is entered in the order of first completion
Completed(agent) == IF agent \in Range(doneLog) THEN doneLog ELSE Append(doneLog, agent)

(***************************************************************************)
(* _execute_agent_with_tools: a reply inside the Tool-Use Loop             *)
(***************************************************************************)
ToolReplyOn(replies) ==
    /\ UNCHANGED <<mem, nRemovals, other, services>>
    /\ nBridge' = nBridge + 1
    /\ \/ /\ Goto(RaiseToCaller(st, loc))
          /\ lastReply' = BridgeFailure
          /\ UNCHANGED <<lastTool, doneLog>>
       \/ \E r \in {x \in replies : ~is_tool_call(x)} :
            /\ Goto(StoreAgentResult(st, loc, r))
            /\ doneLog' = Completed(loc.agent)
            /\ lastReply' = r
            /\ UNCHANGED lastTool
       \/ \E r \in {x \in replies : is_tool_call(x)},
             call \in ToolCalls :
            LET outcome == execute_tool_call(call, loc.agent)
                l1 == [loc EXCEPT !.tool_call_count = @ + 1,
                                  !.current_prompt =
                                      create_tool_result_prompt(initial_prompt,
                                                                loc.tool_call_count + 1)]
            IN  /\ lastTool' = [tool_name |-> call.tool_name, args |-> call.args,
                                agent |-> loc.agent, outcome |-> outcome]
                /\ IF outcome = "suspend" THEN Goto(Suspend(st, l1))
                   ELSE Goto(NextToolCycle(st, l1))
                /\ lastReply' = r
                /\ UNCHANGED doneLog
    /\ UNCHANGED <<crew, op, repo, activeIdx, saved, nSynth, nCalls, nRestarts>>

\* the model answers with the agent's answers or with a well-formed tool call
ToolReply ==
    /\ pc = "tool_call"
    /\ ToolReplyOn(Replies(loc.agent) \cup {"tool_call"})

\* the model answers with any of the replies that are, or nearly are, tool calls
ToolReplyShaped ==
    /\ pc = "tool_call"
    /\ ToolReplyOn(Replies(loc.agent) \cup ToolShaped)

(***************************************************************************)
(* the single call of an agent without tools, and the last call after the  *)
(* tool-call cap: the reply is the final answer                            *)
(***************************************************************************)
AgentReply ==
    /\ pc \in {"agent_call", "final_call"}
    /\ UNCHANGED <<mem, nRemovals, other, services>>
    /\ nBridge' = nBridge + 1
    /\ \/ /\ Goto(RaiseToCaller(st, loc))
          /\ lastReply' = BridgeFailure
          /\ UNCHANGED doneLog
       \/ \E r \in Replies(loc.agent) \cup {"tool_call"} :
            /\ Goto(StoreAgentResult(st, loc, r))
            /\ doneLog' = Completed(loc.agent)
            /\ lastReply' = r
    /\ UNCHANGED <<crew, op, repo, activeIdx, saved, lastTool, nSynth, nCalls, nRestarts>>

(***************************************************************************)
(* _handle_legacy_conditional_transitions: the supervisor's routing reply  *)
(***************************************************************************)
RouteReply ==
    /\ pc = "route_call"
    /\ UNCHANGED <<mem, nRemovals, other, services>>
    /\ LET transitions == crew.nodes[loc.node].ct
       IN  \E reply \in RoutingReplies \cup {BridgeFailure} :
             /\ lastReply' = reply
             /\ Goto(AfterRoute(st, loc,
                                handle_legacy_conditional_transitions(reply, transitions)))
    /\ UNCHANGED <<crew, op, repo, activeIdx, saved, lastTool, nSynth, doneLog, nBridge,
                   nCalls, nRestarts>>

(***************************************************************************)
(* _synthesis_phase: the supervisor's reply; a failure is only logged      *)
(***************************************************************************)
SynthReply ==
    /\ pc = "synth_call"
    /\ UNCHANGED <<mem, nRemovals, other, services>>
    /\ nSynth' = nSynth + 1
    /\ \E ok \in BOOLEAN :
        /\ lastReply' = IF ok THEN "prose" ELSE BridgeFailure
        /\ Goto(At(IF ok THEN store_result(st, "supervisor", "text", "final_synthesis")
                   ELSE st,
                   loc, "save_synth"))
    /\ UNCHANGED <<crew, op, repo, activeIdx, saved, lastTool, doneLog, nBridge, nCalls,
                   nRestarts>>

(***************************************************************************)
(* The process is restarted; at startup every mission of the active set is *)
(* marked ERROR (lifespan, lines 293-305).  When the recovery raises, the  *)
(* process runs without a repository ("degraded") and accepts no call.     *)
(***************************************************************************)
Restart ==
    /\ UNCHANGED services
    /\ pc # "boot"
    /\ nRestarts < MaxRestarts
    /\ nRestarts' = nRestarts + 1
    /\ pc' = "boot"
    /\ st' = NoMission
    /\ loc' = NoLoc
    /\ mem' = MemoryEmpty
    /\ UNCHANGED <<crew, op, repo, activeIdx, result, saved, lastTool, walkLog, nSynth,
                   doneLog, lastReply, nBridge, nCalls, nRemovals, other>>

Recover ==
    /\ pc = "boot"
    /\ UNCHANGED <<mem, nRemovals, other, services>>
    /\ IF activeIdx /\ repo.exists
       THEN \E ok \in BOOLEAN :
              IF ok THEN /\ repo' = model_dump_json(mark_error(model_validate_json(repo)))
                         /\ activeIdx' = FALSE
                         /\ pc' = "idle"
              ELSE /\ UNCHANGED <<repo, activeIdx>>
                   /\ pc' = "degraded"
       ELSE /\ UNCHANGED <<repo, activeIdx>>
            /\ pc' = "idle"
    /\ UNCHANGED <<crew, op, st, loc, result, saved, lastTool, walkLog, nSynth, doneLog,
                   lastReply, nBridge, nCalls, nRestarts>>

(***************************************************************************)
(* delete(mission_id) of the repositories, and the expiry of the Redis     *)
(* string that save writes with ex=MISSION_TTL_SECONDS (the set of active  *)
(* missions has no expiry).  Both are followed between calls, when the     *)
(* caller has dropped the mission object.                                  *)
(***************************************************************************)
Dropped ==
    /\ UNCHANGED services
    /\ pc = "idle"
    /\ repo.exists
    /\ nRemovals < MaxRemovals
    /\ nRemovals' = nRemovals + 1
    /\ repo' = NoMission
    /\ st' = NoMission
    /\ loc' = NoLoc
    /\ UNCHANGED <<crew, pc, op, result, saved, lastTool, walkLog, nSynth, doneLog,
                   lastReply, nBridge, nCalls, nRestarts, other>>

Delete ==
    /\ Dropped
    /\ activeIdx' = FALSE
    /\ mem' = MemoryEmpty

Expire ==
    /\ Dropped
    /\ UNCHANGED <<activeIdx, mem>>

Next ==
    \/ ExecuteMission
    \/ ResumeMission
    \/ Save
    \/ PlanReply
    \/ ToolReply
    \/ AgentReply
    \/ RouteReply
    \/ SynthReply
    \/ Restart
    \/ Recover
    \/ Delete
    \/ Expire

Spec == Init /\ [][Next]_vars

(***************************************************************************)
(* Two resume_mission calls for the same mission id on one event loop.     *)
(* The second call is followed from its get_by_id to the save that follows *)
(* the first node of its graph walk; its agents answer with final answers. *)
(***************************************************************************)
\* the second call moves to m
OtherGoto(m) == other' = [pc |-> m.pc, st |-> m.st, loc |-> m.loc]

\* the checks of lines 115-122 with a lock on the mission id: a call is
\* admitted only when no other call is in flight
OtherAdmitted_exclusive(r) == Resumable(r) /\ pc = "idle"

\* the checks of lines 115-122 as made by the second call
OtherAdmitted(r) == Resumable(r)

\* resume_mission lines 113-145 of the second call
OtherLoad ==
    /\ UNCHANGED services
    /\ other.pc = "none"
    /\ op = "resume"
    /\ \E answer \in Answers :
        IF OtherAdmitted(repo)
        THEN other' = [pc |-> "save_resumed",
                       st |-> resume_apply(model_validate_json(repo), answer),
                       loc |-> [NoLoc EXCEPT
                                  !.req_agent = repo.active_human_request.agent_name,
                                  !.answer = answer]]
        ELSE other' = [NoCall EXCEPT !.pc = "rejected"]
    /\ UNCHANGED <<crew, pc, op, st, loc, repo, activeIdx, result, saved, lastTool,
                   walkLog, nSynth, doneLog, lastReply, nBridge, nCalls, nRestarts, mem,
                   nRemovals>>

\* a save of the second call succeeds
OtherSave ==
    /\ UNCHANGED services
    /\ other.pc \in {"save_resumed", "save_cont", "save_node"}
    /\ repo' = model_dump_json(other.st)
    /\ activeIdx' = (other.st.status \in ActiveStatuses)
    /\ mem' = memory_save(other.st)
    /\ IF other.pc = "save_node" THEN other' = [other EXCEPT !.pc = "walked"]
       ELSE OtherGoto(AfterSave(other.pc, other.st, other.loc))
    /\ UNCHANGED <<crew, pc, op, st, loc, result, saved, lastTool, walkLog, nSynth,
                   doneLog, lastReply, nBridge, nCalls, nRestarts, nRemovals>>

\* an agent of the second call gives its final answer
OtherReply ==
    /\ UNCHANGED services
    /\ other.pc \in {"tool_call", "agent_call"}
    /\ \E r \in Replies(other.loc.agent) :
        OtherGoto(StoreAgentResult(other.st, other.loc, r))
    /\ UNCHANGED <<crew, pc, op, st, loc, repo, activeIdx, result, saved, lastTool,
                   walkLog, nSynth, doneLog, lastReply, nBridge, nCalls, nRestarts, mem,
                   nRemovals>>

NextConcurrent ==
    \/ ResumeMission
    \/ Save
    \/ ToolReply
    \/ AgentReply
    \/ RouteReply
    \/ SynthReply
    \/ OtherLoad
    \/ OtherSave
    \/ OtherReply

SpecConcurrent == Init /\ [][NextConcurrent]_vars

(***************************************************************************)
(* resume_mission calls whose Tool-Use Loop receives every form of reply   *)
(* of ToolShaped                                                           *)
(***************************************************************************)
NextToolCalls ==
    \/ ResumeMission
    \/ Save
    \/ ToolReplyShaped
    \/ AgentReply
    \/ RouteReply
    \/ SynthReply

SpecToolCalls == Init /\ [][NextToolCalls]_vars

\* no mission is run: the orchestrator of the crew solo on an empty repository
InitServices ==
    /\ Init
    /\ crew.name = "solo" /\ crew.quality_threshold = -1
    /\ ~repo.exists

(***************************************************************************)
(* CircuitBreaker.execute, called by any number of route_message calls of  *)
(* one event loop                                                          *)
(***************************************************************************)
\* lines 74-97: the part of execute under the lock
Execute ==
    /\ cbLog.requests < MaxRequests
    /\ LET elapsed == cb.next_attempt_at = 0
           blocked == cb.state = "OPEN" /\ ~elapsed
       IN  IF blocked
           THEN /\ cb' = cb
                /\ cbLog' = [cbLog EXCEPT !.outcome = "CircuitBreakerError",
                                          !.requests = @ + 1]
           ELSE /\ cb.flights + cb.tests < MaxFlights
                /\ cb' = IF cb.state = "CLOSED" THEN [cb EXCEPT !.flights = @ + 1]
                         ELSE [cb EXCEPT !.state = "HALF_OPEN", !.tests = @ + 1]
                /\ cbLog' = [cbLog EXCEPT !.outcome = "let_through", !.requests = @ + 1]
    /\ UNCHANGED <<mission, conv, convLog, di, diLog>>

\* lines 101, 109: the protected call returns
Succeed ==
    /\ \E kind \in InFlight(cb) : cb' = record_success(Landed(cb, kind))
    /\ cbLog' = [cbLog EXCEPT !.outcome = "success", !.failures = 0, !.openings = 0]
    /\ UNCHANGED <<mission, conv, convLog, di, diLog>>

\* lines 102-104: the protected call raises the expected exception
Fail ==
    /\ \E kind \in InFlight(cb), jitter_factor \in Jitter :
            cb' = record_failure(Landed(cb, kind), jitter_factor)
    /\ cbLog' = [cbLog EXCEPT
                    !.outcome = "failure",
                    !.failures = @ + 1,
                    !.openings = IF cb.state # "OPEN" /\ cb'.state = "OPEN"
                                 THEN @ + 1 ELSE @,
                    !.backoff = IF cb'.state = "OPEN" THEN capped_backoff(cb') ELSE @]
    /\ UNCHANGED <<mission, conv, convLog, di, diLog>>

\* lines 105-107: the protected call raises another exception
FailUnexpected ==
    /\ \E kind \in InFlight(cb) : cb' = Landed(cb, kind)
    /\ cbLog' = [cbLog EXCEPT !.outcome = "unexpected"]
    /\ UNCHANGED <<mission, conv, convLog, di, diLog>>

\* the clock moves on by TickSeconds
Tick ==
    /\ cb.next_attempt_at > 0
    /\ cb' = [cb EXCEPT !.next_attempt_at = @ - 1]
    /\ UNCHANGED <<mission, cbLog, conv, convLog, di, diLog>>

NextBreaker ==
    \/ Execute
    \/ Succeed
    \/ Fail
    \/ FailUnexpected
    \/ Tick

SpecBreaker == InitServices /\ [][NextBreaker]_vars

(***************************************************************************)
(* Router.route_message on one conversation id: the first call creates the *)
(* state machine of the conversation (setdefault), the later calls find it *)
(***************************************************************************)
\* route_message, lines 99-109
RouteMessage ==
    /\ convLog.calls < MaxRouted
    /\ \E conversation_id \in ConversationIds, target_llm_name \in Models :
        /\ conv = NoConversation \/ conv.id = conversation_id
        /\ LET state_machine == IF conv = NoConversation
                                THEN ConversationStateMachine(conversation_id)
                                ELSE conv
               allow_repeats == startswith(conversation_id, "mission_")
               done == transition_to(state_machine, target_llm_name, allow_repeats)
           IN  /\ conv' = done.machine
               /\ convLog' = [op |-> "transition_to", raised |-> done.raised,
                              calls |-> convLog.calls + 1]
    /\ UNCHANGED <<mission, cb, cbLog, di, diLog>>

\* route_message, line 169: the adapter has answered
RecordResponse ==
    /\ convLog.calls < MaxRouted
    /\ conv # NoConversation
    /\ \E from_llm_name \in Models : conv' = record_response(conv, from_llm_name)
    /\ convLog' = [op |-> "record_response", raised |-> FALSE, calls |-> convLog.calls + 1]
    /\ UNCHANGED <<mission, cb, cbLog, di, diLog>>

\* a holder of the state machine ends the conversation
EndConversation ==
    /\ convLog.calls < MaxRouted
    /\ conv # NoConversation
    /\ conv' = end_conversation(conv)
    /\ convLog' = [op |-> "end_conversation", raised |-> FALSE, calls |-> convLog.calls + 1]
    /\ UNCHANGED <<mission, cb, cbLog, di, diLog>>

NextRouter ==
    \/ RouteMessage
    \/ RecordResponse

SpecRouter == InitServices /\ [][NextRouter]_vars

NextConversation ==
    \/ RouteMessage
    \/ RecordResponse
    \/ EndConversation

SpecConversation == InitServices /\ [][NextConversation]_vars

(***************************************************************************)
(* ServiceContainer.resolve called by tasks of one event loop              *)
(***************************************************************************)
\* a task calls resolve: lines 104-119 up to the await of the factory
Resolve ==
    /\ diLog.calls < MaxResolves
    /\ \E r \in Resolvers, service_type \in ServiceTypes :
        /\ di.frames[r] = <<>>
        /\ LET call == resolve(di, service_type)
           IN  /\ di' = [call.container EXCEPT !.frames[r] = call.frames]
               /\ diLog' = [diLog EXCEPT
                                !.calls = @ + 1,
                                !.service_type = service_type,
                                !.outcome = call.outcome,
                                !.instance = IF call.outcome = "instance"
                                             THEN di.singletons[service_type] ELSE 0]
    /\ UNCHANGED <<mission, cb, cbLog, conv, convLog>>

\* the factory a task is suspended in returns: lines 117-119 and 130-131,
\* then the factory that awaited this resolve goes on to its own await
FactoryReturns ==
    /\ \E r \in Resolvers :
        /\ di.frames[r] # <<>>
        /\ LET frames == di.frames[r]
               service_type == frames[Len(frames)]
               instance == diLog.built[service_type] + 1
           IN  /\ di' = [di EXCEPT !.singletons[service_type] = instance,
                                   !.resolving = @ \ {service_type},
                                   !.frames[r] = SubSeq(frames, 1, Len(frames) - 1)]
               /\ diLog' = [diLog EXCEPT
                                !.built[service_type] = instance,
                                !.service_type = service_type,
                                !.outcome = IF Len(frames) = 1 THEN "instance" ELSE "suspended",
                                !.instance = IF Len(frames) = 1 THEN instance ELSE 0]
    /\ UNCHANGED <<mission, cb, cbLog, conv, convLog>>

NextContainer ==
    \/ Resolve
    \/ FactoryReturns

SpecContainer == InitServices /\ [][NextContainer]_vars

(***************************************************************************)
(* Observations used by the properties                                     *)
(***************************************************************************)
Terminal == {"COMPLETED", "ERROR"}

\* a step inside one call that keeps the AgentState object
SameCall == nCalls' = nCalls /\ st.exists /\ st'.exists

\* the step in which resume_mission is called
ResumeCalled == nCalls' = nCalls + 1 /\ op' = "resume"

\* the status changes of the state machine of the design: the path
\* PENDING -> PLANNING -> RUNNING -> (COMPLETED | AWAITING_HUMAN_INPUT -> RUNNING),
\* and a failure that takes a mission that is not yet terminal to ERROR
PathEdges ==
    { <<"PENDING", "PLANNING">>, <<"PLANNING", "RUNNING">>, <<"RUNNING", "COMPLETED">>,
      <<"RUNNING", "AWAITING_HUMAN_INPUT">>, <<"AWAITING_HUMAN_INPUT", "RUNNING">>,
      <<"PENDING", "ERROR">>, <<"PLANNING", "ERROR">>, <<"RUNNING", "ERROR">>,
      <<"AWAITING_HUMAN_INPUT", "ERROR">> }

StatusStep(a, b) == a # b => <<a, b>> \in PathEdges

\* C1: every change of a mission's status made by execute_mission or
\* resume_mission is an edge of the path PENDING -> PLANNING -> RUNNING ->
\* (COMPLETED | ERROR | AWAITING_HUMAN_INPUT -> RUNNING -> ...); ERROR is read
\* as reachable from every status that is not terminal.
C1_StatusPath ==
    [][ /\ SameCall => StatusStep(st.status, st'.status)
        /\ (ResumeCalled /\ repo.exists /\ st'.exists /\ pc' # "idle")
              => StatusStep(repo.status, st'.status) ]_vars

\* C2: once the status of a mission is COMPLETED or ERROR, no later step of
\* the call, no later call and no save failure changes any field of it.
C2_TerminalImmutable ==
    [][ /\ (SameCall /\ st.status \in Terminal) => st' = st
        /\ (repo.exists /\ repo.status \in Terminal /\ repo'.exists) => repo' = repo ]_vars

\* C3: in every mission state, in memory or persisted, active_human_request
\* is set if and only if the status is AWAITING_HUMAN_INPUT.
RequestIffAwaiting(r) ==
    r.exists => ((r.active_human_request # NoReq) <=> (r.status = "AWAITING_HUMAN_INPUT"))

C3_RequestIffAwaiting == RequestIffAwaiting(st) /\ RequestIffAwaiting(repo)

\* C4: whenever the Tool-Use Loop handles a tool call that names ask_human,
\* the call raises the suspension signal and the mission becomes
\* AWAITING_HUMAN_INPUT with a request that names the calling agent.
C4_AskHumanSuspends ==
    [][ (pc = "tool_call" /\ pc' # "boot"
         /\ loc'.tool_call_count = loc.tool_call_count + 1
         /\ lastTool'.tool_name = "ask_human")
        => /\ lastTool'.outcome = "suspend"
           /\ st'.status = "AWAITING_HUMAN_INPUT"
           /\ st'.active_human_request.agent_name = loc.agent ]_vars

\* the stored record is not a suspended mission
NotSuspended(r) ==
    ~r.exists \/ r.status # "AWAITING_HUMAN_INPUT" \/ r.active_human_request = NoReq

\* C6: resume_mission on a mission that is absent, not AWAITING_HUMAN_INPUT or
\* without a request is rejected at once: nothing is saved, and the stored
\* record and the active set stay as they were.
C6_ResumeRejected ==
    [][ (ResumeCalled /\ NotSuspended(repo))
        => /\ pc' = "idle" /\ result' = "rejected"
           /\ ~saved'
           /\ repo' = repo /\ activeIdx' = activeIdx ]_vars

C6_Witness ==
    /\ op = "resume" /\ result = "rejected" /\ pc = "idle"
    /\ repo.exists /\ repo.status = "COMPLETED"

\* the configured successor of a node with a single unconditional successor
Successor(n) == crew.nodes[n].transitions_to

HasSuccessor(n) ==
    /\ crew.nodes[n].transitions_to # None
    /\ ~(crew.nodes[n].has_ct /\ ~crew.nodes[n].ct_null)

\* C7: after resume_mission has re-invoked the requesting agent, the graph
\* walk goes on at the configured successor of the node the mission was
\* suspended at: that successor is the first node executed (none when the
\* successor is END).
C7_ResumeFromSuccessor ==
    (op = "resume" /\ loc.req_agent \in Agents /\ HasSuccessor(loc.req_agent)
     /\ walkLog # <<>>)
        => walkLog[1] = Successor(loc.req_agent)

\* the requesting agent is about to be re-invoked by resume_mission
ContStart ==
    /\ op = "resume" /\ loc.ctx = "cont"
    /\ pc \in {"tool_call", "agent_call"} /\ loc.tool_call_count = 0

\* C8: when resume_mission re-invokes the requesting agent, the state with
\* the answer recorded as that agent's human_response, the request cleared
\* and status RUNNING is the one that is persisted.
C8_ResumeRecordsAnswer ==
    ContStart
        => /\ st.results[loc.req_agent].human_response = loc.answer
           /\ st.active_human_request = NoReq
           /\ st.status = "RUNNING"
           /\ repo = model_dump_json(st)

C8_Witness == ContStart /\ repo.exists /\ repo.status = "RUNNING"

\* the entry point's single unconditional successor is END
SoloCrew == HasSuccessor(crew.entry_point) /\ Successor(crew.entry_point) = END

\* C9: for a crew whose entry point X leads straight to END, a mission that
\* execute_mission returns has called X once, stored its output, run the
\* synthesis once, and is COMPLETED with completed_nodes = <<X>>.
C9_SoloMission ==
    (SoloCrew /\ op = "execute" /\ pc = "idle" /\ result = "returned")
        => /\ st.status = "COMPLETED"
           /\ walkLog = <<crew.entry_point>>
           /\ st.results[crew.entry_point].output # None
           /\ nSynth = 1
           /\ st.completed_nodes = <<crew.entry_point>>

\* C10: completed_nodes never holds a name twice, lists the nodes in the
\* order in which they first completed, and only grows: across the steps of
\* a call, across the load of resume_mission and in the stored record.
CompletedNodesOrdered(r) ==
    NoDup(r.completed_nodes) /\ IsPrefix(r.completed_nodes, doneLog)

C10_CompletedNodes ==
    /\ [](CompletedNodesOrdered(st) /\ CompletedNodesOrdered(repo))
    /\ [][ /\ SameCall => IsPrefix(st.completed_nodes, st'.completed_nodes)
           /\ (repo.exists /\ repo'.exists)
                 => IsPrefix(repo.completed_nodes, repo'.completed_nodes)
           /\ (ResumeCalled /\ st'.exists /\ pc' # "idle")
                 => IsPrefix(repo.completed_nodes, st'.completed_nodes) ]_vars

\* a node was executed a second time and two nodes are listed
C10_Witness ==
    /\ Len(st.completed_nodes) = 2
    /\ \E i, j \in 1..Len(walkLog) : i < j /\ walkLog[i] = walkLog[j]

\* executions of the walk of execute_mission that went back to a node which
\* was listed in completed_nodes when it was chosen: when walkLog[i] is
\* chosen, completed_nodes lists the nodes executed before walkLog[i - 1]
LoopBacks(w) == {i \in 3..Len(w) : w[i] \in {w[j] : j \in 1..(i - 2)}}

\* C11: for every graph, with conditional or with unconditional transitions,
\* the walk of execute_mission stops at the max_iterations-th return to a
\* completed node: fewer than max_iterations such returns are ever executed.
C11_LoopBackCap ==
    op = "execute" => Cardinality(LoopBacks(walkLog)) < crew.max_iterations

\* the save issued after a node's agent has run succeeded, and the code up to
\* the next await has run
NodeSaved == pc = "save_node" /\ pc' \notin {"save_error", "boot"}

\* the node whose agent has run declares the key conditional_transitions and
\* its stored output is a quality verdict
VerdictAtRouter ==
    /\ crew.nodes[loc.node].has_ct
    /\ IsQualityAssessment(get_result(st, loc.node))

\* C12: when the output of the node just completed is a quality verdict, the
\* Conditional Router's next node is fixed by the recommendation, whatever
\* targets the node declares: publish -> END, revise -> writer,
\* research_more -> researcher, fail -> END; the supervisor is not asked.
C12_VerdictRouting ==
    [][ (NodeSaved /\ VerdictAtRouter)
        => /\ pc' # "route_call"
           /\ get_result(st, loc.node) = "qa_publish" => loc'.node = END
           /\ get_result(st, loc.node) = "qa_revise" => loc'.node = "writer"
           /\ get_result(st, loc.node) = "qa_research_more" => loc'.node = "researcher"
           /\ get_result(st, loc.node) = "qa_fail" => loc'.node = END ]_vars

\* the verdict "revise" has sent the walk from qa back to writer
C12_Witness ==
    /\ get_result(st, "qa") = "qa_revise"
    /\ loc.node = "writer" /\ pc = "tool_call"
    /\ Len(walkLog) >= 2 /\ walkLog[Len(walkLog) - 1] = "qa"

\* the quality-verdict agent of the node has just answered with a JSON object
\* whose recommendation is none of publish, revise, research_more, fail: the
\* structurer kept the raw text as the agent's output
ForeignRecommendation ==
    /\ loc.node \in Agents
    /\ agents_config[loc.node].output_schema = "QualityAssessment"
    /\ get_result(st, loc.node) = structure_agent_result("json_other", agents_config[loc.node])

\* C13: when a quality-verdict agent's answer carries a recommendation outside
\* {publish, revise, research_more, fail}, the next node chosen after that
\* agent is END (the formula states the choice of the node; the history of
\* the mission is not followed).
C13_ForeignRecommendationEnds ==
    [][ (NodeSaved /\ ForeignRecommendation)
        => /\ loc'.node = END
           /\ pc' \in {"synth_call", "idle"} ]_vars

\* the declared targets that the supervisor's reply names, whatever the case
Named(reply, ts) == {t \in Range(ts) : Lower(t) \in Contained(reply)}

\* C14: when the completed node declares conditional transitions and its
\* output is no quality verdict, the router's result is one of the declared
\* targets: a target the supervisor's reply names (case-insensitively), or the
\* first declared target when the reply names none or the supervisor call
\* fails; the arbitration never puts the mission in ERROR.
C14_ArbitrationFallsBack ==
    [][ (pc = "route_call" /\ pc' # "boot")
        => LET ts == crew.nodes[loc.node].ct
               named == IF lastReply' = BridgeFailure THEN {} ELSE Named(lastReply', ts)
           IN  /\ loc'.node \in Range(ts)
               /\ named # {} => loc'.node \in named
               /\ named = {} => loc'.node = ts[1]
               /\ st'.status # "ERROR" /\ pc' # "save_error" ]_vars

\* the supervisor answered "end" after writer, whose declared targets are
\* researcher and END in this order, and the walk has ended
C14_Witness ==
    /\ lastReply = "end" /\ loc.node = END /\ pc = "synth_call"
    /\ walkLog # <<>> /\ walkLog[Len(walkLog)] = "writer"
    /\ crew.nodes["writer"].ct = <<"researcher", END>>

\* replies to the planning prompt that are no list of tasks: text that is no
\* JSON, and JSON that is no list of task objects
NoTaskList == {"unparseable", "not_a_list"}

\* C15: for every reply to the planning prompt that cannot be parsed into a
\* list of tasks, the mission does not go to ERROR: task_plan is set to a
\* non-empty fallback plan and the mission goes on (the plan is saved next).
C15_PlanFallback ==
    [][ (pc = "plan_call" /\ pc' # "boot" /\ lastReply' \in NoTaskList)
        => /\ st'.status # "ERROR"
           /\ st'.task_plan >= 1
           /\ pc' = "save_planned" ]_vars

\* await points of the Bridge calls of the planning phase, of the agent
\* executions of the graph walk and of the synthesis phase
FatalCallPoints == {"plan_call", "tool_call", "agent_call", "final_call", "synth_call"}

\* C16: a Bridge call of the planning phase, of an agent execution or of the
\* synthesis phase that fails is caught at the boundary of the call: the
\* status becomes ERROR, one message is added to error_messages, the next
\* await is the save of the ERROR state (no call is repeated), and once that
\* save is done the stored mission is the ERROR state and the exception is
\* re-raised to the caller.
C16_FailureIsFatal ==
    [][ /\ (pc \in FatalCallPoints /\ pc' # "boot" /\ lastReply' = BridgeFailure)
            => /\ st'.status = "ERROR"
               /\ st'.error_messages = st.error_messages + 1
               /\ pc' = "save_error"
        /\ (pc = "save_error" /\ pc' # "boot")
            => /\ result' = "raised" /\ pc' = "idle"
               /\ repo' # repo => (repo' = model_dump_json(st) /\ repo'.status = "ERROR") ]_vars

\* await points of the Bridge calls
BridgePoints == {"plan_call", "tool_call", "agent_call", "final_call", "route_call",
                 "synth_call"}

\* the stored record holds everything the finished steps produced: it differs
\* from the mission in memory at most in the bookkeeping of the step that has
\* begun (status, current_node, completed_nodes, progress_percentage)
OneStepBehind(r, s) ==
    /\ r.exists
    /\ r.task_plan = s.task_plan
    /\ r.results = model_dump_json(s).results
    /\ r.error_messages = s.error_messages
    /\ r.active_human_request = s.active_human_request

\* C17: the mission is saved after creation, after planning, after every
\* node execution, after synthesis and after completion: while a step is in
\* flight (a Bridge call is awaited) the stored mission holds the results of
\* all finished steps, when the completion is about to be saved it holds the
\* synthesis, and a mission that was returned is stored as it is.
C17_SavedAfterEveryStep ==
    /\ pc \in BridgePoints => OneStepBehind(repo, st)
    /\ pc = "save_final" => OneStepBehind(repo, st)
    /\ (pc = "idle" /\ result = "returned" /\ st.exists) => repo = model_dump_json(st)

\* the second node of the walk is in flight and the first node's output is
\* stored
C17_Witness ==
    /\ op = "execute" /\ pc = "tool_call" /\ Len(walkLog) = 2
    /\ repo.exists /\ repo.results[walkLog[1]].output # None
    /\ repo.current_node = walkLog[1] /\ st.current_node = walkLog[2]

\* the quality-verdict agent of a node named qa has run and the score of its
\* verdict reaches the crew's quality threshold
ThresholdReached ==
    /\ loc.node \in Agents /\ IsQaName(loc.node)
    /\ IsQualityAssessment(get_result(st, loc.node))
    /\ confidence_score(get_result(st, loc.node)) >= quality_threshold(crew)

\* C18: after a node whose name contains "qa" has run, when the score of the
\* qa result just produced is at least the crew's quality_threshold, the
\* graph walk stops at that node, before any routing decision, and the
\* mission goes on to the synthesis.
C18_QualityThresholdStops ==
    [][ (NodeSaved /\ ThresholdReached)
        => /\ pc' = "synth_call"
           /\ loc'.node = loc.node
           /\ walkLog' = walkLog ]_vars

\* the agent execution has ended: its result is about to be saved, or the
\* failure of its call is about to be recorded
ExecutionEnded == pc' \in {"save_node", "save_cont", "save_error"}

\* C19: one agent execution makes a bounded number of model calls.  An agent
\* without tools is called once.  An agent with tools has at most
\* max_tool_calls (5) tool invocations; when the cap is reached one more call
\* is made, and its reply ends the execution without a tool being invoked.
C19_ToolLoopBounded ==
    /\ [](loc.tool_call_count <= max_tool_calls /\ nBridge <= max_tool_calls + 1)
    /\ [](pc = "final_call" => (loc.tool_call_count = max_tool_calls
                                 /\ nBridge = max_tool_calls))
    /\ [][ /\ (pc = "agent_call" /\ pc' # "boot")
                => (nBridge = 0 /\ nBridge' = 1 /\ ExecutionEnded
                    /\ lastTool' = lastTool)
           /\ (pc = "final_call" /\ pc' # "boot")
                => (nBridge' = max_tool_calls + 1 /\ ExecutionEnded
                    /\ lastTool' = lastTool
                    /\ loc'.tool_call_count = loc.tool_call_count) ]_vars

\* the call made after the fifth tool invocation was answered with one more
\* tool call, which became the agent's final answer
C19_Witness ==
    /\ pc = "save_node" /\ nBridge = max_tool_calls + 1
    /\ loc.tool_call_count = max_tool_calls
    /\ lastReply = "tool_call"
    /\ st.results[loc.agent].output = "text"

\* the Tool-Use Loop has just handled a tool call naming a tool that is not
\* in the registry
UnknownToolCalled ==
    /\ pc = "tool_call" /\ pc' # "boot"
    /\ loc'.tool_call_count = loc.tool_call_count + 1
    /\ lastTool'.tool_name \notin RegisteredTools

\* C20: a tool call naming a tool that is not in the registry gives a
\* structured error result that is handed back to the agent as the tool
\* result: no exception is raised, the mission is left as it was, and the
\* Tool-Use Loop goes on (with its next call, or with the last call once the
\* cap is reached).
C20_UnknownToolIsLocal ==
    [][ UnknownToolCalled
        => /\ lastTool'.outcome = "error"
           /\ st' = st
           /\ result' = result
           /\ pc' \in {"tool_call", "final_call"} ]_vars

\* the agent named the unregistered tool summarize and is called again
C20_Witness ==
    /\ lastTool.tool_name = "summarize" /\ lastTool.outcome = "error"
    /\ pc = "tool_call" /\ loc.tool_call_count >= 1
    /\ st.status = "RUNNING" /\ lastReply = "tool_call"

\* the mission that get_by_id rebuilds from what save has written for s
Reloaded(s) == model_validate_json(model_dump_json(s))

\* C21: for every mission state the orchestrator produces, saving it and
\* loading it again by id gives a mission with the same status, results and
\* completed_nodes (one mission id is followed).
C21_RoundTrip ==
    st.exists
        => /\ Reloaded(st).status = st.status
           /\ Reloaded(st).results = st.results
           /\ Reloaded(st).completed_nodes = st.completed_nodes

\* list_active_ids of the Redis repository returns the mission id exactly
\* when a mission is stored under it whose last saved status is active
RedisActiveExact == activeIdx <=> (repo.exists /\ repo.status \in ActiveStatuses)

\* the same for the in-memory repository
MemoryActiveExact == mem.active <=> (mem.status \in ActiveStatuses)

\* C22: for each repository implementation, after any sequence of saves and
\* deletes, list_active_ids returns exactly the ids of the stored missions
\* whose last saved status is PENDING, PLANNING, RUNNING or
\* AWAITING_HUMAN_INPUT.
C22_ActiveIdsExact == RedisActiveExact /\ MemoryActiveExact

\* C23: when the startup recovery pass has finished, the mission id that
\* list_active_ids returned at startup has persisted status ERROR and is no
\* longer returned by list_active_ids.
C23_RecoveryMarksError ==
    [][ (pc = "boot" /\ pc' = "idle" /\ activeIdx)
        => /\ repo'.exists /\ repo'.status = "ERROR"
           /\ ~activeIdx' ]_vars

\* an agent whose declared output schema is the quality verdict has given its
\* final answer, and the answer was structured and stored
VerdictAgentAnswered ==
    /\ pc \in {"tool_call", "agent_call", "final_call"}
    /\ pc' \in {"save_node", "save_cont"}
    /\ agents_config[loc.agent].output_schema = "QualityAssessment"

\* C24: for an agent whose declared output schema is the quality verdict, the
\* value stored as its output is always a quality verdict: the validated
\* answer, or the default verdict with recommendation fail when extraction or
\* validation fails; the raw text is never stored in its place.
C24_VerdictAlwaysStructured ==
    [][ VerdictAgentAnswered
        => /\ IsQualityAssessment(get_result(st', loc.agent))
           /\ (RecommendationOf(lastReply') \notin Recommendation
                  => get_result(st', loc.agent) = "qa_fail") ]_vars

\* the second call runs its get_by_id and its checks
OtherLoaded == other.pc = "none" /\ other'.pc # "none"

\* the first call has passed the checks and has not yet saved
FirstInFlight == op = "resume" /\ pc = "save_resumed"

\* C25: two resume_mission calls for the same suspended mission are not
\* excluded from each other: a second call that loads the mission while the
\* first one has passed the checks and awaits its save passes the checks as
\* well, and goes on to save, to re-invoke the requesting agent and to walk
\* the graph.
C25_ResumeNotExclusive ==
    /\ [][ (OtherLoaded /\ FirstInFlight)
            => /\ other'.pc = "save_resumed"
               /\ other'.st.status = "RUNNING"
               /\ other'.loc.req_agent = loc.req_agent ]_vars
    /\ [](other.pc \in {"tool_call", "agent_call"}
            => other.loc.agent \in {other.loc.req_agent, other.loc.node})

\* both calls have re-invoked the requesting agent and executed the first
\* node of their graph walk
C25_Witness ==
    /\ op = "resume" /\ walkLog # <<>> /\ pc = "save_node"
    /\ other.pc = "walked" /\ other.loc.req_agent = loc.req_agent
    /\ other.loc.node = crew.entry_point

\* C26: the synthesis input holds the output of every agent node whose
\* execution finished during the graph walk, the last node executed included,
\* and a run that reaches completion has invoked the synthesis exactly once
\* and has stored a final_synthesis result.
C26_SynthesisComplete ==
    /\ (pc = "synth_call" /\ op = "execute") => Range(walkLog) \subseteq all_results(st)
    /\ (pc = "idle" /\ result = "returned" /\ st.exists /\ st.status = "COMPLETED")
          => (nSynth = 1 /\ st.results["supervisor"].final_synthesis)

\* C27: task_plan is assigned once, by the planning phase, and no later
\* operation changes it: within a call it changes only at the planning reply
\* and only from None, resume_mission takes it over from the stored mission,
\* and the stored mission never loses or changes a plan it holds.
C27_TaskPlanFrame ==
    [][ /\ (SameCall /\ st'.task_plan # st.task_plan)
              => (pc = "plan_call" /\ st.task_plan = -1 /\ st'.task_plan >= 1)
        /\ (ResumeCalled /\ st'.exists /\ pc' # "idle")
              => st'.task_plan = repo.task_plan
        /\ (repo.exists /\ repo'.exists /\ repo.task_plan # -1)
              => repo'.task_plan = repo.task_plan ]_vars

\* a mission was planned with two tasks, failed later and was stored as ERROR
\* with its plan
C27_Witness ==
    /\ op = "execute" /\ pc = "idle" /\ result = "raised"
    /\ repo.exists /\ repo.status = "ERROR" /\ repo.task_plan = 2
    /\ walkLog # <<>>

\* the reply received in the Tool-Use Loop was handled as a tool call
HandledAsToolCall == loc'.tool_call_count = loc.tool_call_count + 1

\* the reply received in the Tool-Use Loop was returned as the final answer
ReturnedAsAnswer ==
    /\ pc' \in {"save_node", "save_cont"}
    /\ loc'.tool_call_count = loc.tool_call_count
    /\ st'.results[loc.agent].raw

\* C28: a model reply is treated as a tool call if and only if, after
\* trimming, it starts with a brace, contains the literal tool_name and parses
\* as a JSON object with the keys tool_name and args; every other reply is
\* returned as the agent's final answer.
C28_ToolCallDetection ==
    [][ (pc = "tool_call" /\ pc' # "boot" /\ lastReply' # BridgeFailure)
        => LET f == Shape(lastReply')
               detected == /\ f.starts \in {"brace", "blank_brace"}
                           /\ f.literal
                           /\ f.json
                           /\ {"tool_name", "args"} \subseteq f.keys
           IN  /\ detected <=> HandledAsToolCall
               /\ ~detected <=> ReturnedAsAnswer ]_vars

\* {"tool_name": "web_search"} without args was stored as a final answer
C28_Witness ==
    /\ lastReply = "json_no_args" /\ pc = "save_node"
    /\ loc.agent = "researcher" /\ st.results["researcher"].output = "text"

\* the crew configuration is the one main.py hands to the orchestrator: a
\* registry crew that passed RegistrySchema, after model_dump()
LoadedByRegistry == crew \in {CrewDump(c) : c \in {r \in RawCrews : CrewValid(r)}}

\* the save issued after a node's agent has run was written to the repository
NodeWritten ==
    pc = "save_node" /\ pc' # "boot" /\ repo' = model_dump_json(st) /\ repo' # repo

\* C29: after a node that declares a single unconditional successor has
\* executed, the next node is that successor, and neither the Conditional
\* Router nor the supervisor is invoked (the mission does not fail in the
\* router either), for crew configurations as loaded and validated by the
\* registry schema.
C29_UnconditionalSuccessor ==
    [][ (NodeWritten /\ LoadedByRegistry /\ HasSuccessor(loc.node))
        => /\ pc' \notin {"route_call", "save_error"}
           /\ loc'.node = Successor(loc.node) ]_vars

\* C30: in the Tool-Use Loop the prompt is a running prompt: for every k, the
\* prompt sent on the model call that follows the k-th tool invocation holds
\* the (truncated) results of all k tool invocations made so far in this agent
\* execution, not only the most recent one.
C30_RunningPrompt ==
    pc \in {"tool_call", "final_call"}
        => \A k \in 1..loc.tool_call_count : k \in loc.current_prompt

\* resume_mission has sent, or is about to send, the continuation prompt
ContinuationSent == op = "resume" /\ loc.ctx = "cont" /\ pc \in {"tool_call", "agent_call"}

\* C31: the continuation prompt with which resume_mission re-invokes the
\* requesting agent embeds the original question of the HumanRequest that
\* suspended the mission, together with the human's answer.
C31_ContinuationPrompt ==
    ContinuationSent
        => /\ loc.continuation_prompt.question = "q"
           /\ loc.continuation_prompt.answer = loc.answer

\* one call of execute ran the part under the lock
Executed == cbLog'.requests = cbLog.requests + 1

\* a protected call came back, with the outcome named
Returned(outcome) ==
    /\ cb'.flights + cb'.tests = cb.flights + cb.tests - 1
    /\ cbLog'.outcome = outcome

\* C32: starting from CLOSED, the max_failures-th failure of the expected
\* exception type since the last success moves the breaker to OPEN; while
\* OPEN and before next_attempt_at every execute call raises
\* CircuitBreakerError and runs no protected call; a failure of another
\* exception type changes neither the state nor the failure counts.
C32_BreakerTrips ==
    [][ /\ (Returned("failure") /\ cbLog'.failures = max_failures)
              => cb'.state = "OPEN"
        /\ (cb'.state = "CLOSED") => (cbLog'.failures < max_failures)
        /\ (Executed /\ cb.state = "OPEN" /\ cb.next_attempt_at > 0)
              => (cbLog'.outcome = "CircuitBreakerError" /\ cb' = cb)
        /\ Returned("unexpected")
              => /\ cb'.state = cb.state
                 /\ cb'.failure_count = cb.failure_count
                 /\ cb'.consecutive_failure_count = cb.consecutive_failure_count ]_vars

\* the third failure in a row has opened the breaker, and a call that came
\* before the wait was over was turned away
C32_Witness ==
    /\ cb.state = "OPEN" /\ cb.next_attempt_at > 0
    /\ cbLog.failures = max_failures /\ cbLog.openings = 1
    /\ cbLog.outcome = "CircuitBreakerError"

\* C33: while the breaker is HALF_OPEN at most one protected call that was
\* let through as a test request is in flight; further execute calls are
\* turned away until the test request has succeeded or failed.
C33_SingleTestRequest == cb.state = "HALF_OPEN" => cb.tests <= 1

\* C34: a successful call in any state closes the breaker and sets both
\* failure counts to 0; a failed test request in HALF_OPEN reopens it; and
\* whenever the breaker opens, the wait before jitter is
\* base * 2^(k-1) capped at max_reset_timeout_seconds, k being the number of
\* openings since the last success.
C34_BackoffDoubles ==
    [][ /\ Returned("success")
              => /\ cb'.state = "CLOSED"
                 /\ cb'.failure_count = 0
                 /\ cb'.consecutive_failure_count = 0
        /\ (Returned("failure") /\ cb.state = "HALF_OPEN") => cb'.state = "OPEN"
        /\ (Returned("failure") /\ cb.state # "OPEN" /\ cb'.state = "OPEN")
              => cbLog'.backoff = Min(reset_timeout_base_seconds * Pow2(cbLog'.openings - 1),
                                      max_reset_timeout_seconds) ]_vars

\* the step is a call of the operation named on the conversation
Called(operation) == convLog'.calls = convLog.calls + 1 /\ convLog'.op = operation

\* the chain names the same target twice in a row
DirectRepeat(chain) == \E i \in 1..(Len(chain) - 1) : chain[i] = chain[i + 1]

\* the chain goes from a target to another one and back
PingPong(chain) == \E i \in 1..(Len(chain) - 2) : chain[i] = chain[i + 2]

\* C35: for a conversation whose id does not start with mission_ (route_message
\* then does not allow repeats), the participants chain never holds the same
\* target twice in a row nor a ping-pong; a transition rejected by these rules
\* raises, puts the conversation in ERROR and leaves the chain unchanged.
C35_LoopPrevention ==
    /\ [](~startswith(conv.id, "mission_")
            => ~DirectRepeat(conv.participants_chain) /\ ~PingPong(conv.participants_chain))
    /\ [][ (Called("transition_to") /\ ~startswith(conv'.id, "mission_"))
            => IF convLog'.raised
               THEN /\ conv'.current_state = "ERROR"
                    /\ conv'.participants_chain = conv.participants_chain
               ELSE /\ conv'.current_state = "AWAITING_RESPONSE"
                    /\ \E target \in Models :
                          conv'.participants_chain = Append(conv.participants_chain, target)
           ]_vars

\* a call back to the model before the last one was rejected
C35_Witness ==
    /\ ~startswith(conv.id, "mission_")
    /\ Len(conv.participants_chain) = 2
    /\ conv.current_state = "ERROR" /\ convLog.raised /\ convLog.op = "transition_to"

C37_MissionCallsNeverRejected ==
    /\ [](\A id \in OrchestratorConversationIds :
            startswith(id, "mission_") /\ SubSeq(id, 1, Len(mission_id)) = mission_id)
    /\ [][ (Called("transition_to") /\ conv'.id \in OrchestratorConversationIds)
            => (~convLog'.raised /\ conv'.current_state = "AWAITING_RESPONSE") ]_vars

\* the same model was called three times in a row on the routing conversation
C37_Witness ==
    /\ conv.id = mission_id \o <<"_routing">>
    /\ conv.participants_chain = <<"gpt4o_via_or", "gpt4o_via_or", "gpt4o_via_or">>
    /\ ~convLog.raised

\* progress_percentage of s is in range and agrees with the status of s
ProgressInRange(s) ==
    s.exists => /\ 0 <= s.progress_percentage /\ s.progress_percentage <= 100
                /\ s.status # "COMPLETED" => s.progress_percentage <= ProgressCap

ProgressFull(s) ==
    s.exists => (s.progress_percentage = 100 <=> s.status = "COMPLETED")

\* C38: progress_percentage stays within [0, 100], never decreases during a
\* mission, is at most 95 while the mission is not COMPLETED, and equals 100
\* exactly when the status is COMPLETED: in the AgentState of the running
\* call and in the stored mission.
C38_Progress ==
    /\ [](ProgressInRange(st) /\ ProgressInRange(repo))
    /\ [](ProgressFull(st) /\ ProgressFull(repo))
    /\ [][ (SameCall /\ st.exists /\ st'.exists)
            => st'.progress_percentage >= st.progress_percentage ]_vars

\* the factory of the service type resolves, directly or through the
\* factories it resolves, its own type
RECURSIVE Reaches(_, _, _)
Reaches(from, to, n) ==
    /\ n > 0
    /\ Depends(from) # None
    /\ (Depends(from) = to \/ Reaches(Depends(from), to, n - 1))

DependsOnItself(t) == Reaches(t, t, Cardinality(ServiceTypes))

\* C39: for a singleton with an asynchronous factory, the factory runs once
\* and every resolve call that returns, among any number of concurrent
\* ones, returns that one instance; resolve raises the circular-dependency
\* RuntimeError only for a service whose factory depends on itself.
C39_SingletonResolve ==
    /\ \A t \in ServiceTypes : diLog.built[t] <= 1
    /\ diLog.outcome = "instance"
          => diLog.instance = 1 /\ di.singletons[diLog.service_type] = 1
    /\ diLog.outcome = "RuntimeError" => DependsOnItself(diLog.service_type)

====
